---- MODULE Spec2Model ----
(***************************************************************************)
(* Model of maas-flow's state engine (state.go): the transition table,     *)
(* findAction, the seven actions, ProcessNode, buildFilter, matchedFilter  *)
(* and ProcessAll.                                                         *)
(***************************************************************************)
EXTENDS Integers, Sequences, FiniteSets, Bags, TLC

VARIABLES
    options,      \* ProcessingOptions handed to every ProcessAll call
    nodes,        \* the []MaasNode handed to ProcessAll
    pc,           \* "idle" | "loop" | "fatal" : position of the caller of ProcessAll
    run,          \* number of ProcessAll calls started
    i,            \* loop index of ProcessAll (1-based), line 228
    errors,       \* the errors slice of the running ProcessAll, line 217
    includeHosts, \* compiled host include filter, line 218
    includeZones, \* compiled zone include filter, line 223
    returned,     \* what the last completed ProcessAll returned
    reads,        \* node indexes whose substatus was read in the current run
    invoked,      \* per node index: the action ProcessNode invoked in the current run
    goroutines,   \* bag of the actions launched with `go` (line 188) and not yet run
    posts,        \* the CallPost requests the MAAS client received, with their outcome
    logbuf,       \* lines logged by the thread that calls ProcessAll, in order
    golog,        \* lines logged by goroutines
    fTarget,      \* findAction harness: argument target
    fCurrent,     \* findAction harness: argument current
    fResults,     \* findAction harness: results of the calls made so far
    mInclude,     \* matchedFilter harness: the pattern list
    mTarget,      \* matchedFilter harness: the value tested
    mResult,      \* matchedFilter harness: the outcome of the call, once made
    maas          \* MAAS server: the state of each machine, by node index

vars == <<options, nodes, pc, run, i, errors, includeHosts, includeZones,
          returned, reads, invoked, goroutines, posts, logbuf, golog,
          fTarget, fCurrent, fResults, mInclude, mTarget, mResult, maas>>

procVars == <<options, nodes, pc, run, i, errors, includeHosts, includeZones,
              returned, reads, invoked, goroutines, posts, logbuf, golog>>

findVars == <<fTarget, fCurrent, fResults>>

filterVars == <<mInclude, mTarget, mResult>>

serviceVars == <<maas>>

harnessVars == <<findVars, filterVars, serviceVars>>

(***************************************************************************)
(* Bounds.                                                                 *)
(***************************************************************************)
MaxNodes == 2
MaxRuns  == 2
MaxCalls == 2
MaxPatterns == 2
MaxPending == 2

(***************************************************************************)
(* Errors.  A Go error value is modelled by its kind and the values the    *)
(* message is formatted with; NilErr is the nil error.                     *)
(***************************************************************************)
NilErr == [kind |-> "nil", a |-> "", b |-> ""]

UnknownTargetErr(target) ==
    [kind |-> "Could not find transition to target state", a |-> target, b |-> ""]

UnknownTransitionErr(current, target) ==
    [kind |-> "Could not find transition from current state", a |-> current, b |-> target]

StatusReadErr == [kind |-> "GetInteger", a |-> "substatus", b |-> ""]

ExternalCallErr(op) == [kind |-> "CallPost", a |-> op, b |-> ""]

(***************************************************************************)
(* The transition table and findAction.                                    *)
(***************************************************************************)
\* DeployedTable with the actions of Ready and Allocated exchanged.
DeployedTableSwapped ==
    [s \in {"New", "Deployed", "Ready", "Allocated", "Retired", "Reserved",
            "Releasing", "DiskErasing", "Deploying", "Commissioning",
            "Missing", "FailedReleasing", "FailedDiskErasing",
            "FailedDeployment", "Broken", "FailedCommissioning"} |->
        CASE s = "New"                 -> "Commission"
          [] s = "Deployed"            -> "Done"
          [] s = "Ready"               -> "Deploy"
          [] s = "Allocated"           -> "Aquire"
          [] s \in {"Retired", "Reserved"} -> "AdminState"
          [] s \in {"Releasing", "DiskErasing", "Deploying", "Commissioning"} -> "Wait"
          [] OTHER                     -> "Fail"]

DeployedTable ==
    [s \in {"New", "Deployed", "Ready", "Allocated", "Retired", "Reserved",
            "Releasing", "DiskErasing", "Deploying", "Commissioning",
            "Missing", "FailedReleasing", "FailedDiskErasing",
            "FailedDeployment", "Broken", "FailedCommissioning"} |->
        CASE s = "New"                 -> "Commission"
          [] s = "Deployed"            -> "Done"
          [] s = "Ready"               -> "Aquire"
          [] s = "Allocated"           -> "Deploy"
          [] s = "Retired"             -> "AdminState"
          [] s = "Reserved"            -> "AdminState"
          [] s = "Releasing"           -> "Wait"
          [] s = "DiskErasing"         -> "Wait"
          [] s = "Deploying"           -> "Wait"
          [] s = "Commissioning"       -> "Wait"
          [] s = "Missing"             -> "Fail"
          [] s = "FailedReleasing"     -> "Fail"
          [] s = "FailedDiskErasing"   -> "Fail"
          [] s = "FailedDeployment"    -> "Fail"
          [] s = "Broken"              -> "Fail"
          [] s = "FailedCommissioning" -> "Fail"]

Transitions == [t \in {"Deployed"} |-> DeployedTable]

WarnLine(text, a, b) == [level |-> "warn", text |-> text, a |-> a, b |-> b]

\* findAction without its first check: a missing target is reported as a
\* missing transition.
findActionNoTargetCheck(target, current) ==
    IF target \notin DOMAIN Transitions \/ current \notin DOMAIN Transitions[target]
    THEN [action |-> "nil", err |-> UnknownTransitionErr(current, target),
          lines |-> <<WarnLine("unable to find transition from current state", current, target)>>]
    ELSE [action |-> Transitions[target][current], err |-> NilErr, lines |-> <<>>]

\* The result of findAction: the action ("nil" when none), the error, and the
\* lines it logs.
findAction(target, current) ==
    IF target \notin DOMAIN Transitions
    THEN [action |-> "nil", err |-> UnknownTargetErr(target),
          lines |-> <<WarnLine("unable to find transitions to target state", target, "")>>]
    ELSE IF current \notin DOMAIN Transitions[target]
    THEN [action |-> "nil", err |-> UnknownTransitionErr(current, target),
          lines |-> <<WarnLine("unable to find transition from current state", current, target)>>]
    ELSE [action |-> Transitions[target][current], err |-> NilErr, lines |-> <<>>]

(***************************************************************************)
(* Strings.  Names are TLA+ strings; Chars gives the characters of the     *)
(* names and patterns that the regular expressions work on.                *)
(***************************************************************************)
Chars(s) ==
    CASE s = "web-01"    -> <<"w", "e", "b", "-", "0", "1">>
      [] s = "db-01"     -> <<"d", "b", "-", "0", "1">>
      [] s = "us-east"   -> <<"u", "s", "-", "e", "a", "s", "t">>
      [] s = "us-west"   -> <<"u", "s", "-", "w", "e", "s", "t">>
      [] s = "^web-"     -> <<"^", "w", "e", "b", "-">>
      [] s = "^db-"      -> <<"^", "d", "b", "-">>
      [] s = "^us-east$" -> <<"^", "u", "s", "-", "e", "a", "s", "t", "$">>
      [] s = "st$"       -> <<"s", "t", "$">>
      [] s = "west"      -> <<"w", "e", "s", "t">>
      [] s = "("         -> <<"(">>
      [] s = ""          -> <<>>

(***************************************************************************)
(* regexp.Compile and Regexp.MatchString for the syntax the patterns       *)
(* above use: an optional leading ^, an optional trailing $, literal       *)
(* characters between them, and parentheses, which must balance.           *)
(***************************************************************************)
RECURSIVE ParenDepth(_, _)
\* Depth after reading cs from depth d; -1 once a ")" closes nothing.
ParenDepth(cs, d) ==
    IF d < 0 THEN -1
    ELSE IF cs = <<>> THEN d
    ELSE IF Head(cs) = "(" THEN ParenDepth(Tail(cs), d + 1)
    ELSE IF Head(cs) = ")" THEN ParenDepth(Tail(cs), d - 1)
    ELSE ParenDepth(Tail(cs), d)

Compile(pattern) ==
    LET cs     == Chars(pattern)
        bol    == Len(cs) > 0 /\ cs[1] = "^"
        rest   == IF bol THEN Tail(cs) ELSE cs
        eol    == Len(rest) > 0 /\ rest[Len(rest)] = "$"
        lit    == IF eol THEN SubSeq(rest, 1, Len(rest) - 1) ELSE rest
    IN  IF ParenDepth(cs, 0) # 0
        THEN [ok |-> FALSE, bol |-> FALSE, eol |-> FALSE, lit |-> <<>>]
        ELSE [ok |-> TRUE, bol |-> bol, eol |-> eol, lit |-> lit]

\* Unanchored search, as MatchString does: the literal occurs somewhere in
\* the text, at the start when ^ is given and up to the end when $ is given.
MatchString(re, text) ==
    LET cs == Chars(text)
        n  == Len(re.lit)
    IN  \E k \in 0..(Len(cs) - n) :
            /\ SubSeq(cs, k + 1, k + n) = re.lit
            /\ re.bol => k = 0
            /\ re.eol => k + n = Len(cs)

(***************************************************************************)
(* buildFilter and matchedFilter.                                          *)
(***************************************************************************)
RECURSIVE buildFilterFrom(_, _)
\* The loop of buildFilter from index k on: the first pattern that does not
\* compile ends it with an error and no result.
buildFilterFrom(filter, k) ==
    IF k > Len(filter) THEN [ok |-> TRUE, results |-> <<>>]
    ELSE LET r == Compile(filter[k]) IN
         IF ~r.ok THEN [ok |-> FALSE, results |-> <<>>]
         ELSE LET more == buildFilterFrom(filter, k + 1) IN
              IF ~more.ok THEN more
              ELSE [ok |-> TRUE, results |-> <<r>> \o more.results]

RECURSIVE buildFilterSkipFrom(_, _)
buildFilterSkipFrom(filter, k) ==
    IF k > Len(filter) THEN [ok |-> TRUE, results |-> <<>>]
    ELSE LET r == Compile(filter[k])
             more == buildFilterSkipFrom(filter, k + 1)
         IN  IF ~r.ok THEN more
             ELSE [ok |-> TRUE, results |-> <<r>> \o more.results]

\* buildFilter leaving out, instead of reporting, a pattern that does not
\* compile.
buildFilterSkipInvalid(filter) == buildFilterSkipFrom(filter, 1)

buildFilter(filter) == buildFilterFrom(filter, 1)

RECURSIVE matchedFilterFrom(_, _, _)
matchedFilterFrom(include, target, k) ==
    IF k > Len(include) THEN FALSE
    ELSE IF MatchString(include[k], target) THEN TRUE
    ELSE matchedFilterFrom(include, target, k + 1)

\* matchedFilter taking an empty list to match everything.
matchedFilterEmptyTrue(include, target) ==
    Len(include) = 0 \/ matchedFilterFrom(include, target, 1)

\* matchedFilter returning from its loop after the first pattern.
matchedFilterFirstOnly(include, target) ==
    Len(include) > 0 /\ MatchString(include[1], target)

matchedFilter(include, target) == matchedFilterFrom(include, target, 1)

(***************************************************************************)
(* MaasNodeStatus(code).String(): the name of an integer status code.      *)
(***************************************************************************)
StatusName(code) ==
    CASE code = 0  -> "New"
      [] code = 1  -> "Commissioning"
      [] code = 2  -> "FailedCommissioning"
      [] code = 3  -> "Missing"
      [] code = 4  -> "Ready"
      [] code = 5  -> "Reserved"
      [] code = 6  -> "Deployed"
      [] code = 7  -> "Retired"
      [] code = 8  -> "Broken"
      [] code = 9  -> "Deploying"
      [] code = 10 -> "Allocated"
      [] code = 11 -> "FailedDeployment"
      [] code = 12 -> "Releasing"
      [] code = 13 -> "FailedReleasing"
      [] code = 14 -> "DiskErasing"
      [] code = 15 -> "FailedDiskErasing"
      [] OTHER     -> "Invalid"

(***************************************************************************)
(* The actions.  Each yields the lines it logs, the POST requests it       *)
(* issues and the error it returns; ok tells whether the MAAS server       *)
(* accepts the POST.                                                       *)
(***************************************************************************)
ActionLine(text, hostname) == [level |-> "", text |-> text, a |-> hostname, b |-> ""]

Post(op, on, params) == [op |-> op, on |-> on, params |-> params]

Done(node, opts, ok) ==
    [lines |-> <<ActionLine("COMPLETE", node.hostname)>>, posts |-> <<>>, err |-> NilErr]

\* Deploy without the test of options.Preview.
DeployAlways(node, opts, ok) ==
    [lines |-> <<ActionLine("DEPLOY", node.hostname)>>,
     posts |-> <<Post("start", node.id, <<>>)>>,
     err   |-> IF ok THEN NilErr ELSE ExternalCallErr("start")]

Deploy(node, opts, ok) ==
    IF ~opts.Preview
    THEN [lines |-> <<ActionLine("DEPLOY", node.hostname)>>,
          posts |-> <<Post("start", node.id, <<>>)>>,
          err   |-> IF ok THEN NilErr ELSE ExternalCallErr("start")]
    ELSE [lines |-> <<ActionLine("DEPLOY", node.hostname)>>, posts |-> <<>>, err |-> NilErr]

\* Aquire leaving out the request.
AquireNoPost(node, opts, ok) ==
    [lines |-> <<ActionLine("AQUIRE", node.hostname)>>, posts |-> <<>>, err |-> NilErr]

Aquire(node, opts, ok) ==
    IF ~opts.Preview
    THEN [lines |-> <<ActionLine("AQUIRE", node.hostname)>>,
          posts |-> <<Post("acquire", "nodes", <<"name", node.hostname>>)>>,
          err   |-> IF ok THEN NilErr ELSE ExternalCallErr("acquire")]
    ELSE [lines |-> <<ActionLine("AQUIRE", node.hostname)>>, posts |-> <<>>, err |-> NilErr]

Commission(node, opts, ok) ==
    IF ~opts.Preview
    THEN [lines |-> <<ActionLine("COMISSION", node.hostname)>>,
          posts |-> <<Post("commission", node.id, <<>>)>>,
          err   |-> IF ok THEN NilErr ELSE ExternalCallErr("commission")]
    ELSE [lines |-> <<ActionLine("COMISSION", node.hostname)>>, posts |-> <<>>, err |-> NilErr]

Wait(node, opts, ok) ==
    [lines |-> <<ActionLine("WAIT", node.hostname)>>, posts |-> <<>>, err |-> NilErr]

\* Fail trying to recover the machine by commissioning it again.
FailRecommission(node, opts, ok) == Commission(node, opts, ok)

Fail(node, opts, ok) ==
    [lines |-> <<ActionLine("FAIL", node.hostname)>>, posts |-> <<>>, err |-> NilErr]

AdminState(node, opts, ok) ==
    [lines |-> <<ActionLine("ADMIN", node.hostname)>>, posts |-> <<>>, err |-> NilErr]

\* Calling the function value the table holds.
Call(action, node, opts, ok) ==
    CASE action = "Done"       -> Done(node, opts, ok)
      [] action = "Deploy"     -> Deploy(node, opts, ok)
      [] action = "Aquire"     -> Aquire(node, opts, ok)
      [] action = "Commission" -> Commission(node, opts, ok)
      [] action = "Wait"       -> Wait(node, opts, ok)
      [] action = "Fail"       -> Fail(node, opts, ok)
      [] action = "AdminState" -> AdminState(node, opts, ok)

(***************************************************************************)
(* ProcessNode.  Yields the error it returns, the lines logged and POSTs   *)
(* issued before it returns, the action it invoked ("nil" when none), how  *)
(* ("sync" inline, "go" as a goroutine) and, for an inline call, the value *)
(* the action returned.                                                    *)
(***************************************************************************)
\* ProcessNode calling the action inline in both modes and returning what
\* the action returns.
ProcessNodeAwait(node, opts, ok) ==
    IF ~node.readable
    THEN [err |-> StatusReadErr, lines |-> <<>>, posts |-> <<>>,
          action |-> "nil", mode |-> "none", ret |-> NilErr]
    ELSE LET f == findAction("Deployed", StatusName(node.substatus)) IN
         IF f.err # NilErr
         THEN [err |-> f.err, lines |-> f.lines, posts |-> <<>>,
               action |-> "nil", mode |-> "none", ret |-> NilErr]
         ELSE LET r == Call(f.action, node, opts, ok) IN
              [err |-> r.err, lines |-> r.lines, posts |-> r.posts,
               action |-> f.action, mode |-> "sync", ret |-> r.err]

\* ProcessNode falling back to the Wait action when no transition is found.
ProcessNodeDefaultWait(node, opts, ok) ==
    IF ~node.readable
    THEN [err |-> StatusReadErr, lines |-> <<>>, posts |-> <<>>,
          action |-> "nil", mode |-> "none", ret |-> NilErr]
    ELSE LET f == findAction("Deployed", StatusName(node.substatus))
             action == IF f.err # NilErr THEN "Wait" ELSE f.action
         IN  IF opts.Preview
             THEN LET r == Call(action, node, opts, ok) IN
                  [err |-> NilErr, lines |-> f.lines \o r.lines, posts |-> r.posts,
                   action |-> action, mode |-> "sync", ret |-> r.err]
             ELSE [err |-> NilErr, lines |-> f.lines, posts |-> <<>>,
                   action |-> action, mode |-> "go", ret |-> NilErr]

\* ProcessNode starting a goroutine in preview mode too.
ProcessNodeAlwaysGo(node, opts, ok) ==
    IF ~node.readable
    THEN [err |-> StatusReadErr, lines |-> <<>>, posts |-> <<>>,
          action |-> "nil", mode |-> "none", ret |-> NilErr]
    ELSE LET f == findAction("Deployed", StatusName(node.substatus)) IN
         IF f.err # NilErr
         THEN [err |-> f.err, lines |-> f.lines, posts |-> <<>>,
               action |-> "nil", mode |-> "none", ret |-> NilErr]
         ELSE [err |-> NilErr, lines |-> <<>>, posts |-> <<>>,
               action |-> f.action, mode |-> "go", ret |-> NilErr]

ProcessNode(node, opts, ok) ==
    IF ~node.readable
    THEN [err |-> StatusReadErr, lines |-> <<>>, posts |-> <<>>,
          action |-> "nil", mode |-> "none", ret |-> NilErr]
    ELSE LET f == findAction("Deployed", StatusName(node.substatus)) IN
         IF f.err # NilErr
         THEN [err |-> f.err, lines |-> f.lines, posts |-> <<>>,
               action |-> "nil", mode |-> "none", ret |-> NilErr]
         ELSE IF opts.Preview
         THEN LET r == Call(f.action, node, opts, ok) IN
              [err |-> NilErr, lines |-> r.lines, posts |-> r.posts,
               action |-> f.action, mode |-> "sync", ret |-> r.err]
         ELSE [err |-> NilErr, lines |-> <<>>, posts |-> <<>>,
               action |-> f.action, mode |-> "go", ret |-> NilErr]

(***************************************************************************)
(* Inputs.                                                                 *)
(***************************************************************************)
HostIncludePool == {<<>>, <<"^web-">>, <<"^db-", "^web-">>, <<"^web-", "(">>}

ZoneIncludePool == {<<>>, <<"^us-east$">>, <<"west", "st$">>, <<"(">>}

OptionsPool ==
    [HostsInclude : HostIncludePool, ZonesInclude : ZoneIncludePool,
     HostsExclude : {<<>>}, ZonesExclude : {<<>>},
     Verbose : BOOLEAN, Preview : BOOLEAN]

\* Options whose include lists are valid and whose exclude lists vary: empty,
\* matching some machines, and not compiling.
ExcludeOptionsPool ==
    [HostsInclude : {<<"^web-">>, <<"^db-", "^web-">>},
     ZonesInclude : {<<"^us-east$">>, <<"west", "st$">>},
     HostsExclude : {<<>>, <<"^web-">>, <<"(">>},
     ZonesExclude : {<<>>, <<"west">>},
     Verbose : {FALSE}, Preview : BOOLEAN]

\* The machines of the inventory, by position in the batch.
Inventory(k) ==
    CASE k = 1 -> [id |-> "node-1", hostname |-> "web-01", zone |-> "us-east"]
      [] k = 2 -> [id |-> "node-2", hostname |-> "db-01",  zone |-> "us-west"]
      [] k = 3 -> [id |-> "node-3", hostname |-> "web-01", zone |-> "us-west"]
      [] OTHER -> [id |-> "node-4", hostname |-> "db-01",  zone |-> "us-east"]

\* What GetInteger("substatus") finds: no readable integer, or a status code.
SubstatusPool ==
    {[readable |-> FALSE, substatus |-> 0]} \cup
    [readable : {TRUE}, substatus : {0, 1, 3, 4, 6, 7, 10, 16}]

MaasNode(k, st) ==
    [id |-> Inventory(k).id, hostname |-> Inventory(k).hostname,
     zone |-> Inventory(k).zone, readable |-> st.readable, substatus |-> st.substatus]

NodesPool ==
    UNION {{[k \in 1..n |-> MaasNode(k, sts[k])] : sts \in [1..n -> SubstatusPool]} :
           n \in 0..MaxNodes}


(***************************************************************************)
(* The batch: ProcessAll, called again and again by the main loop, and the *)
(* goroutines it leaves behind.                                            *)
(***************************************************************************)
InfoLine(text, a, b) == [level |-> "info", text |-> text, a |-> a, b |-> b]

FatalLine(text) == [level |-> "error", text |-> text, a |-> "", b |-> ""]

Range(seq) == {seq[k] : k \in DOMAIN seq}

\* A request as the MAAS client saw it: the POST and whether it succeeded.
Received(post, err) ==
    [op |-> post.op, on |-> post.on, params |-> post.params, ok |-> err = NilErr]

\* errors[i] = err with the index forgotten.
SetSlotFirst(errs, k, err) == [errs EXCEPT ![1] = err]

\* errors[i] = err: lines 235-239.
SetSlot(errs, k, err) == [errs EXCEPT ![k] = err]

NoCall == [action |-> "nil", mode |-> "none", ret |-> NilErr]

InitProc ==
    /\ options \in OptionsPool
    /\ nodes \in NodesPool
    /\ pc = "idle"
    /\ run = 0
    /\ i = 1
    /\ errors = <<>>
    /\ includeHosts = <<>>
    /\ includeZones = <<>>
    /\ returned = [valid |-> FALSE, errs |-> <<>>]
    /\ reads = {}
    /\ invoked = <<>>
    /\ goroutines = EmptyBag
    /\ posts = {}
    /\ logbuf = <<>>
    /\ golog = {}

\* ProcessAll up to its loop: lines 217-226.  log.Fatalf ends the process.
ProcessAllEnter ==
    /\ pc = "idle"
    /\ run < MaxRuns
    /\ run' = run + 1
    /\ errors' = [k \in 1..Len(nodes) |-> NilErr]
    /\ reads' = {}
    /\ invoked' = [k \in 1..Len(nodes) |-> NoCall]
    /\ i' = 1
    /\ LET hosts == buildFilter(options.HostsInclude)
           zones == buildFilter(options.ZonesInclude)
       IN  IF ~hosts.ok
           THEN /\ pc' = "fatal"
                /\ logbuf' = Append(logbuf, FatalLine("invalid regular expression for include filter"))
                /\ UNCHANGED <<includeHosts, includeZones>>
           ELSE IF ~zones.ok
           THEN /\ pc' = "fatal"
                /\ logbuf' = Append(logbuf, FatalLine("invalid regular expression for include filter"))
                /\ includeHosts' = hosts.results
                /\ UNCHANGED includeZones
           ELSE /\ pc' = "loop"
                /\ includeHosts' = hosts.results
                /\ includeZones' = zones.results
                /\ UNCHANGED logbuf
    /\ UNCHANGED <<options, nodes, returned, goroutines, posts, golog>>
    /\ UNCHANGED harnessVars

\* The body of the loop of ProcessAll for nodes[i], lines 229-251, given the
\* outcome of the test of line 230 and, when that one holds, of line 233.
ProcessAllIteration(hostMatched, zoneMatched) ==
    /\ LET node == nodes[i] IN
       IF hostMatched
       THEN IF zoneMatched
            THEN \E ok \in BOOLEAN :
                 LET r == ProcessNode(node, options, ok) IN
                 /\ errors' = SetSlot(errors, i, r.err)
                 /\ reads' = reads \cup {i}
                 /\ invoked' = [invoked EXCEPT ![i] =
                                   [action |-> r.action, mode |-> r.mode, ret |-> r.ret]]
                 /\ logbuf' = logbuf \o r.lines
                 /\ posts' = posts \cup {Received(p, r.ret) : p \in Range(r.posts)}
                 /\ goroutines' =
                        IF r.mode = "go"
                        THEN goroutines (+) SetToBag({[idx |-> i, action |-> r.action]})
                        ELSE goroutines
            ELSE /\ logbuf' = IF options.Verbose
                              THEN Append(logbuf, InfoLine("ignoring node, zone didn't match",
                                                           node.hostname, node.zone))
                              ELSE logbuf
                 /\ UNCHANGED <<errors, reads, invoked, posts, goroutines>>
       ELSE /\ logbuf' = IF options.Verbose
                         THEN Append(logbuf, InfoLine("ignoring node, hostname didn't match",
                                                      node.hostname, ""))
                         ELSE logbuf
            /\ UNCHANGED <<errors, reads, invoked, posts, goroutines>>
    /\ i' = i + 1
    /\ UNCHANGED <<options, nodes, pc, run, includeHosts, includeZones, returned, golog>>
    /\ UNCHANGED harnessVars

\* The loop of ProcessAll left at the first machine after one whose slot
\* holds an error.
ProcessAllLoopAbort ==
    /\ pc = "loop"
    /\ i <= Len(nodes)
    /\ IF \E k \in 1..(i - 1) : errors[k] # NilErr
       THEN /\ i' = Len(nodes) + 1
            /\ UNCHANGED <<options, nodes, pc, run, errors, includeHosts, includeZones,
                           returned, reads, invoked, goroutines, posts, logbuf, golog>>
            /\ UNCHANGED harnessVars
       ELSE ProcessAllIteration(
                Len(includeHosts) >= 0 /\ matchedFilter(includeHosts, nodes[i].hostname),
                Len(includeZones) >= 0 /\ matchedFilter(includeZones, nodes[i].zone))

\* The loop of ProcessAll rejecting a machine that matches an exclude list.
ProcessAllLoopExcluding ==
    /\ pc = "loop"
    /\ i <= Len(nodes)
    /\ ProcessAllIteration(
           /\ Len(includeHosts) >= 0 /\ matchedFilter(includeHosts, nodes[i].hostname)
           /\ ~matchedFilter(buildFilterSkipInvalid(options.HostsExclude).results,
                             nodes[i].hostname),
           /\ Len(includeZones) >= 0 /\ matchedFilter(includeZones, nodes[i].zone)
           /\ ~matchedFilter(buildFilterSkipInvalid(options.ZonesExclude).results,
                             nodes[i].zone))

\* The loop of ProcessAll passing over a machine while a goroutine started
\* for it is still running.
ProcessAllLoopSerialized ==
    /\ pc = "loop"
    /\ i <= Len(nodes)
    /\ ProcessAllIteration(
           /\ Len(includeHosts) >= 0 /\ matchedFilter(includeHosts, nodes[i].hostname)
           /\ \A g \in BagToSet(goroutines) : g.idx # i,
           Len(includeZones) >= 0 /\ matchedFilter(includeZones, nodes[i].zone))

\* One iteration of the loop of ProcessAll: lines 228-252.
ProcessAllLoop ==
    /\ pc = "loop"
    /\ i <= Len(nodes)
    /\ ProcessAllIteration(
           Len(includeHosts) >= 0 /\ matchedFilter(includeHosts, nodes[i].hostname),
           Len(includeZones) >= 0 /\ matchedFilter(includeZones, nodes[i].zone))

\* ProcessAll joining the goroutines it launched before it returns.
ProcessAllReturnJoin ==
    /\ pc = "loop"
    /\ i > Len(nodes)
    /\ goroutines = EmptyBag
    /\ returned' = [valid |-> TRUE, errs |-> errors]
    /\ pc' = "idle"
    /\ UNCHANGED <<options, nodes, run, i, errors, includeHosts, includeZones,
                   reads, invoked, goroutines, posts, logbuf, golog>>
    /\ UNCHANGED harnessVars

\* return errors: line 253.
ProcessAllReturn ==
    /\ pc = "loop"
    /\ i > Len(nodes)
    /\ returned' = [valid |-> TRUE, errs |-> errors]
    /\ pc' = "idle"
    /\ UNCHANGED <<options, nodes, run, i, errors, includeHosts, includeZones,
                   reads, invoked, goroutines, posts, logbuf, golog>>
    /\ UNCHANGED harnessVars

\* A goroutine started at line 188 runs its action and ends; the value the
\* action returns is dropped.
Goroutine ==
    /\ pc # "fatal"
    /\ \E g \in BagToSet(goroutines) :
       \E ok \in BOOLEAN :
         LET r == Call(g.action, nodes[g.idx], options, ok) IN
         /\ goroutines' = goroutines (-) SetToBag({g})
         /\ golog' = golog \cup Range(r.lines)
         /\ posts' = posts \cup {Received(p, r.err) : p \in Range(r.posts)}
    /\ UNCHANGED <<options, nodes, pc, run, i, errors, includeHosts, includeZones,
                   returned, reads, invoked, logbuf>>
    /\ UNCHANGED harnessVars

NoResult == [called |-> FALSE, matched |-> FALSE]

FindIdle ==
    /\ fTarget = ""
    /\ fCurrent = ""
    /\ fResults = <<>>

FilterIdle ==
    /\ mInclude = <<>>
    /\ mTarget = ""
    /\ mResult = NoResult

ServiceIdle == maas = <<>>

Init ==
    /\ InitProc
    /\ FindIdle
    /\ FilterIdle
    /\ ServiceIdle

Next ==
    \/ ProcessAllEnter
    \/ ProcessAllLoop
    \/ ProcessAllReturn
    \/ Goroutine

Spec == Init /\ [][Next]_vars

\* ProcessAll under options that carry exclude lists; the machines are
\* unreadable, Deployed or Allocated.
InitExclude ==
    /\ options \in ExcludeOptionsPool
    /\ nodes \in NodesPool
    /\ \A k \in DOMAIN nodes : ~nodes[k].readable \/ nodes[k].substatus \in {6, 10}
    /\ pc = "idle"
    /\ run = 0
    /\ i = 1
    /\ errors = <<>>
    /\ includeHosts = <<>>
    /\ includeZones = <<>>
    /\ returned = [valid |-> FALSE, errs |-> <<>>]
    /\ reads = {}
    /\ invoked = <<>>
    /\ goroutines = EmptyBag
    /\ posts = {}
    /\ logbuf = <<>>
    /\ golog = {}
    /\ FindIdle
    /\ FilterIdle
    /\ ServiceIdle

SpecExclude == InitExclude /\ [][Next]_vars

\* ProcessAll over two machines that pass both include filters, each in any of
\* the sixteen states of the table and staying in it.
InitStates ==
    /\ options \in [HostsInclude : {<<"^db-", "^web-">>}, ZonesInclude : {<<"west", "st$">>},
                    HostsExclude : {<<>>}, ZonesExclude : {<<>>},
                    Verbose : {FALSE}, Preview : BOOLEAN]
    /\ nodes \in {[k \in 1..2 |-> MaasNode(k, [readable |-> TRUE, substatus |-> codes[k]])] :
                     codes \in [1..2 -> 0..15]}
    /\ pc = "idle"
    /\ run = 0
    /\ i = 1
    /\ errors = <<>>
    /\ includeHosts = <<>>
    /\ includeZones = <<>>
    /\ returned = [valid |-> FALSE, errs |-> <<>>]
    /\ reads = {}
    /\ invoked = <<>>
    /\ goroutines = EmptyBag
    /\ posts = {}
    /\ logbuf = <<>>
    /\ golog = {}
    /\ FindIdle
    /\ FilterIdle
    /\ ServiceIdle

SpecStates == InitStates /\ [][Next]_vars

\* The thread that calls ProcessAll keeps running; nothing is assumed of the
\* goroutines, which may never be scheduled or never come back from a POST.
\* The patterns are valid; the machines are unreadable, Deployed or Allocated.
InitCaller ==
    /\ Init
    /\ buildFilter(options.HostsInclude).ok
    /\ buildFilter(options.ZonesInclude).ok
    /\ \A k \in DOMAIN nodes : ~nodes[k].readable \/ nodes[k].substatus \in {6, 10}

SpecCaller ==
    /\ InitCaller
    /\ [][Next]_vars
    /\ WF_vars(ProcessAllLoop)
    /\ WF_vars(ProcessAllReturn)

(***************************************************************************)
(* findAction on its own: called repeatedly with the same arguments.       *)
(***************************************************************************)
\* The edges of the lifecycle graph: lines 68-86.
defaultStateMachine ==
    {<<"New", "Commissioning">>,
     <<"Commissioning", "FailedCommissioning">>,
     <<"FailedCommissioning", "New">>,
     <<"Commissioning", "Ready">>,
     <<"Ready", "Deploying">>,
     <<"Ready", "Allocated">>,
     <<"Allocated", "Deploying">>,
     <<"Deploying", "Deployed">>,
     <<"Deploying", "FailedDeployment">>,
     <<"FailedDeployment", "Broken">>,
     <<"Deployed", "Releasing">>,
     <<"Releasing", "FailedReleasing">>,
     <<"FailedReleasing", "Broken">>,
     <<"Releasing", "DiskErasing">>,
     <<"DiskErasing", "FailedEraseDisk">>,
     <<"FailedEraseDisk", "Broken">>,
     <<"Releasing", "Ready">>,
     <<"DiskErasing", "Ready">>,
     <<"Broken", "Ready">>}

\* The states the graph names, as source or destination of an edge.
GraphStates == {e[1] : e \in defaultStateMachine} \cup {e[2] : e \in defaultStateMachine}

TargetPool == {"Deployed", "Ready", ""}

CurrentPool == DOMAIN DeployedTable \cup GraphStates \cup {"Invalid", ""}

ProcIdle ==
    /\ options = [HostsInclude |-> <<>>, ZonesInclude |-> <<>>,
                  HostsExclude |-> <<>>, ZonesExclude |-> <<>>,
                  Verbose |-> FALSE, Preview |-> FALSE]
    /\ nodes = <<>>
    /\ pc = "idle"
    /\ run = 0
    /\ i = 1
    /\ errors = <<>>
    /\ includeHosts = <<>>
    /\ includeZones = <<>>
    /\ returned = [valid |-> FALSE, errs |-> <<>>]
    /\ reads = {}
    /\ invoked = <<>>
    /\ goroutines = EmptyBag
    /\ posts = {}
    /\ logbuf = <<>>
    /\ golog = {}

InitFind ==
    /\ ProcIdle
    /\ FilterIdle
    /\ ServiceIdle
    /\ fTarget \in TargetPool
    /\ fCurrent \in CurrentPool
    /\ fResults = <<>>

FindActionCall ==
    /\ Len(fResults) < MaxCalls
    /\ fResults' = Append(fResults, findAction(fTarget, fCurrent))
    /\ UNCHANGED <<fTarget, fCurrent>>
    /\ UNCHANGED <<procVars, filterVars, serviceVars>>

NextFind == FindActionCall

SpecFind == InitFind /\ [][NextFind]_vars

(***************************************************************************)
(* ProcessAll called again and again, without preview, on machines of a    *)
(* MAAS server that accepts every request and moves a machine only along   *)
(* the edges of defaultStateMachine.  Before each call the caller reads    *)
(* the machines from the server; the goroutines run while it goes on.      *)
(* One machine, web-01, which both include lists match.                    *)
(***************************************************************************)
ProgressingStates == {"Commissioning", "Deploying", "Releasing", "DiskErasing"}

FailedStates ==
    {"Missing", "Broken", "FailedCommissioning", "FailedDeployment", "FailedReleasing",
     "FailedDiskErasing", "FailedEraseDisk"}

AdministrativeStates == {"Retired", "Reserved"}

\* The states in which repeated runs leave a machine: the target and the
\* states that need an operator.
TargetOrTerminal == {"Deployed"} \cup FailedStates \cup AdministrativeStates

\* The status code a machine in a state of the graph is read with; the state
\* the graph calls FailedEraseDisk is the one the table calls
\* FailedDiskErasing.
CodeOf(state) ==
    IF state = "FailedEraseDisk" THEN 15
    ELSE CHOOSE code \in 0..15 : StatusName(code) = state

\* The state a request asks the server to move the machine to.
RequestTarget(op) ==
    CASE op = "commission" -> "Commissioning"
      [] op = "acquire"    -> "Allocated"
      [] op = "start"      -> "Deploying"

\* The server accepts the request; the machine moves when the graph has the
\* edge and stays where it is otherwise.
Accept(op, state) ==
    IF <<state, RequestTarget(op)>> \in defaultStateMachine
    THEN RequestTarget(op)
    ELSE state

\* The machines as the caller reads them from the server.
Observed(machines) ==
    [k \in DOMAIN machines |->
        MaasNode(k, [readable |-> TRUE, substatus |-> CodeOf(machines[k])])]

InitService ==
    /\ maas = <<"New">>
    /\ options = [HostsInclude |-> <<"^db-", "^web-">>, ZonesInclude |-> <<"west", "st$">>,
                  HostsExclude |-> <<>>, ZonesExclude |-> <<>>,
                  Verbose |-> FALSE, Preview |-> FALSE]
    /\ nodes = Observed(maas)
    /\ pc = "idle"
    /\ run = 0
    /\ i = 1
    /\ errors = <<>>
    /\ includeHosts = <<>>
    /\ includeZones = <<>>
    /\ returned = [valid |-> FALSE, errs |-> <<>>]
    /\ reads = {}
    /\ invoked = <<>>
    /\ goroutines = EmptyBag
    /\ posts = {}
    /\ logbuf = <<>>
    /\ golog = {}
    /\ FindIdle
    /\ FilterIdle

\* The caller reads the machines and calls ProcessAll, which runs up to its
\* loop (lines 217-226); it does so while fewer than MaxPending goroutines
\* are waiting to run.
Reconcile ==
    /\ pc = "idle"
    /\ BagCardinality(goroutines) < MaxPending
    /\ nodes' = Observed(maas)
    /\ run' = IF run < MaxRuns THEN run + 1 ELSE run
    /\ errors' = [k \in 1..Len(nodes) |-> NilErr]
    /\ reads' = {}
    /\ invoked' = [k \in 1..Len(nodes) |-> NoCall]
    /\ i' = 1
    /\ LET hosts == buildFilter(options.HostsInclude)
           zones == buildFilter(options.ZonesInclude)
       IN  /\ hosts.ok
           /\ zones.ok
           /\ pc' = "loop"
           /\ includeHosts' = hosts.results
           /\ includeZones' = zones.results
    /\ UNCHANGED <<options, returned, goroutines, posts, logbuf, golog>>
    /\ UNCHANGED harnessVars

\* The goroutine g runs its action; the server accepts the request it sends.
RunGoroutine(g) ==
    /\ CopiesIn(g, goroutines) > 0
    /\ LET r == Call(g.action, nodes[g.idx], options, TRUE) IN
       /\ goroutines' = goroutines (-) SetToBag({g})
       /\ golog' = golog \cup Range(r.lines)
       /\ posts' = posts \cup {Received(p, r.err) : p \in Range(r.posts)}
       /\ maas' = IF r.posts = <<>>
                  THEN maas
                  ELSE [maas EXCEPT ![g.idx] = Accept(r.posts[1].op, @)]
    /\ UNCHANGED <<options, nodes, pc, run, i, errors, includeHosts, includeZones,
                   returned, reads, invoked, logbuf>>
    /\ UNCHANGED <<findVars, filterVars>>

\* The server moves machine k along an edge of the graph, of its own accord
\* or at an operator's request.  The machine is followed until it is in the
\* target state or in a terminal one.
ServiceMove(k) ==
    /\ maas[k] \notin TargetOrTerminal
    /\ \E e \in defaultStateMachine :
          /\ e[1] = maas[k]
          /\ maas' = [maas EXCEPT ![k] = e[2]]
    /\ UNCHANGED <<procVars, findVars, filterVars>>

\* A machine in a progressing state leaves it on its own.
Progress(k) ==
    /\ maas[k] \in ProgressingStates
    /\ ServiceMove(k)

ActionNames == {"Done", "Deploy", "Aquire", "Commission", "Wait", "Fail", "AdminState"}

NextService ==
    \/ Reconcile
    \/ ProcessAllLoop
    \/ ProcessAllReturn
    \/ \E g \in BagToSet(goroutines) : RunGoroutine(g)
    \/ \E k \in DOMAIN maas : ServiceMove(k)

SpecService ==
    /\ InitService
    /\ [][NextService]_vars
    /\ WF_vars(Reconcile)
    /\ WF_vars(ProcessAllLoop)
    /\ WF_vars(ProcessAllReturn)
    /\ \A g \in [idx : {1}, action : ActionNames] : WF_vars(RunGoroutine(g))
    /\ WF_vars(Progress(1))

(***************************************************************************)
(* matchedFilter on its own: a list of valid patterns is compiled with     *)
(* buildFilter and one value is tested against it.                         *)
(***************************************************************************)
ValidPatterns == {"^web-", "^db-", "^us-east$", "st$", "west"}

ValuePool == {"web-01", "db-01", "us-east", "us-west"}

PatternLists == UNION {[1..n -> ValidPatterns] : n \in 0..MaxPatterns}

InitFilter ==
    /\ ProcIdle
    /\ FindIdle
    /\ ServiceIdle
    /\ mInclude \in PatternLists
    /\ mTarget \in ValuePool
    /\ mResult = NoResult

MatchedFilterCall ==
    /\ ~mResult.called
    /\ LET compiled == buildFilter(mInclude) IN
       /\ compiled.ok
       /\ mResult' = [called |-> TRUE, matched |-> matchedFilter(compiled.results, mTarget)]
    /\ UNCHANGED <<mInclude, mTarget>>
    /\ UNCHANGED <<procVars, findVars, serviceVars>>

NextFilter == MatchedFilterCall

SpecFilter == InitFilter /\ [][NextFilter]_vars

(***************************************************************************)
(* Properties of findAction (checked under SpecFind).                      *)
(***************************************************************************)

\* C1: for target "Deployed" and a current state present in the table,
\* every call of findAction returns the configured action and no error,
\* every repeated call returns the same, and Ready -> Aquire,
\* Allocated -> Deploy, Retired -> AdminState, Missing -> Fail,
\* Deployed -> Done.
C1_ConfiguredAction ==
    \A k \in 1..Len(fResults) :
        (fTarget = "Deployed" /\ fCurrent \in DOMAIN DeployedTable) =>
            /\ fResults[k].err = NilErr
            /\ fResults[k].action = Transitions["Deployed"][fCurrent]
            /\ fResults[k] = fResults[1]
            /\ fCurrent = "Ready"     => fResults[k].action = "Aquire"
            /\ fCurrent = "Allocated" => fResults[k].action = "Deploy"
            /\ fCurrent = "Retired"   => fResults[k].action = "AdminState"
            /\ fCurrent = "Missing"   => fResults[k].action = "Fail"
            /\ fCurrent = "Deployed"  => fResults[k].action = "Done"

C1_Witness ==
    /\ fTarget = "Deployed"
    /\ fCurrent = "Ready"
    /\ Len(fResults) = 2
    /\ fResults[2].action = "Aquire"

\* C2: findAction returns no action and the unknown-target error for a
\* target without sub-table, whatever the current state, and no action and
\* the unknown-transition error for a current state without entry under a
\* known target; the two errors differ.
C2_UnknownErrors ==
    \A k \in 1..Len(fResults) :
        /\ fTarget # "Deployed" =>
              /\ fResults[k].action = "nil"
              /\ fResults[k].err.kind = "Could not find transition to target state"
              /\ fResults[k].err.a = fTarget
        /\ (fTarget = "Deployed" /\ fCurrent \notin DOMAIN DeployedTable) =>
              /\ fResults[k].action = "nil"
              /\ fResults[k].err.kind = "Could not find transition from current state"
              /\ fResults[k].err.a = fCurrent
              /\ fResults[k].err.b = fTarget
        /\ fResults[k].err # NilErr =>
              (fTarget # "Deployed" \/ fCurrent \notin DOMAIN DeployedTable)

C2_Witness ==
    /\ fTarget = "Ready"
    /\ fCurrent = "Invalid"
    /\ Len(fResults) > 0
    /\ fResults[1].err.kind = "Could not find transition to target state"

\* C20: every state the lifecycle graph names has an entry in the table
\* for the target "Deployed", and findAction("Deployed", s) returns an
\* action and no error for every such state s.
C20_GraphStatesResolvable ==
    (fTarget = "Deployed" /\ fCurrent \in GraphStates) =>
        \A k \in 1..Len(fResults) :
            /\ fCurrent \in DOMAIN DeployedTable
            /\ fResults[k].err = NilErr
            /\ fResults[k].action # "nil"

(***************************************************************************)
(* Properties of matchedFilter (checked under SpecFilter).                 *)
(***************************************************************************)
\* Which pattern matches which value, as the regular expressions read.
PatternMatches(pattern, value) ==
    CASE pattern = "^web-"     -> value = "web-01"
      [] pattern = "^db-"      -> value = "db-01"
      [] pattern = "^us-east$" -> value = "us-east"
      [] pattern = "st$"       -> value \in {"us-east", "us-west"}
      [] pattern = "west"      -> value = "us-west"

\* C14: matchedFilter is true exactly when at least one pattern of the list
\* matches the value, whether the patterns overlap or not; it is false for
\* every value when the list is empty.
C14_MatchedFilterIsOr ==
    mResult.called =>
        /\ mResult.matched <=>
               \E j \in DOMAIN mInclude : PatternMatches(mInclude[j], mTarget)
        /\ mInclude = <<>> => ~mResult.matched

C14_Witness ==
    /\ mResult.called
    /\ mInclude = <<"^us-east$", "st$">>
    /\ mTarget = "us-west"
    /\ mResult.matched

(***************************************************************************)
(* Properties of ProcessAll and ProcessNode (checked under Spec).          *)
(***************************************************************************)
\* The node at index k has been passed by the loop of the current run.
Passed(k) == pc \in {"loop", "idle"} /\ run > 0 /\ k < i

HostAccepted(k) ==
    \E j \in DOMAIN includeHosts : MatchString(includeHosts[j], nodes[k].hostname)

ZoneAccepted(k) ==
    \E j \in DOMAIN includeZones : MatchString(includeZones[j], nodes[k].zone)

\* What the status read and the resolution make of a node.
ExpectedErr(node) ==
    IF ~node.readable THEN StatusReadErr
    ELSE IF StatusName(node.substatus) \notin DOMAIN DeployedTable
    THEN UnknownTransitionErr(StatusName(node.substatus), "Deployed")
    ELSE NilErr

AllLines == Range(logbuf) \cup golog

IsActionLine(line) ==
    line.text \in {"COMPLETE", "DEPLOY", "AQUIRE", "COMISSION", "WAIT", "FAIL", "ADMIN"}

NothingDispatched ==
    /\ reads = {}
    /\ \A k \in DOMAIN invoked : invoked[k] = NoCall
    /\ goroutines = EmptyBag
    /\ posts = {}
    /\ \A line \in AllLines : ~IsActionLine(line)

\* C3: with an empty host include list a machine is dispatched exactly when
\* its zone matches the zone include list; with zone-include ["^us-east$"],
\* web-01 in us-east is dispatched and a machine in us-west is not.
C3_EmptyHostIncludeMatchesAll ==
    options.HostsInclude = <<>> =>
        \A k \in 1..Len(nodes) :
            Passed(k) =>
                /\ (k \in reads) <=> ZoneAccepted(k)
                /\ (options.ZonesInclude = <<"^us-east$">> /\ nodes[k].zone = "us-east")
                       => k \in reads
                /\ (options.ZonesInclude = <<"^us-east$">> /\ nodes[k].zone = "us-west")
                       => k \notin reads

\* C4: with an empty zone include list no machine is dispatched: no status
\* is read, no action is invoked, no POST is issued, and every result slot
\* is nil.
C4_EmptyZoneIncludeMatchesNone ==
    options.ZonesInclude = <<>> =>
        /\ NothingDispatched
        /\ \A k \in DOMAIN errors : errors[k] = NilErr
        /\ returned.valid => \A k \in DOMAIN returned.errs : returned.errs[k] = NilErr

C4_Witness ==
    /\ options.ZonesInclude = <<>>
    /\ options.HostsInclude = <<"^web-">>
    /\ Len(nodes) = 2
    /\ nodes[1].hostname = "web-01"
    /\ ~nodes[1].readable
    /\ returned.valid
    /\ Len(returned.errs) = 2

\* C5: in preview mode no POST is ever issued; and in either mode every
\* POST issued is the commission of a machine seen in New, the acquire of a
\* machine seen in Ready or the start of a machine seen in Allocated, so
\* that Done, Wait, Fail and AdminState issue none.
C5_PreviewNoExternalCall ==
    /\ options.Preview => posts = {}
    /\ \A p \in posts :
         \E k \in 1..Len(nodes) :
            /\ nodes[k].readable
            /\ \/ /\ StatusName(nodes[k].substatus) = "New"
                  /\ p.op = "commission" /\ p.on = nodes[k].id /\ p.params = <<>>
               \/ /\ StatusName(nodes[k].substatus) = "Ready"
                  /\ p.op = "acquire" /\ p.on = "nodes"
                  /\ p.params = <<"name", nodes[k].hostname>>
               \/ /\ StatusName(nodes[k].substatus) = "Allocated"
                  /\ p.op = "start" /\ p.on = nodes[k].id /\ p.params = <<>>

C5_Witness ==
    /\ options.Preview
    /\ run = 2
    /\ pc = "idle"
    /\ Len(nodes) = 2
    /\ invoked[1] = [action |-> "Deploy", mode |-> "sync", ret |-> NilErr]
    /\ invoked[2] = [action |-> "Commission", mode |-> "sync", ret |-> NilErr]
    /\ posts = {}

\* C6: ProcessAll returns one slot per input machine; slot k holds the
\* outcome of ProcessNode for machine k when machine k passes both include
\* filters, and nil when a filter rejects it.
C6_ResultPerMachine ==
    returned.valid =>
        /\ Len(returned.errs) = Len(nodes)
        /\ \A k \in 1..Len(nodes) :
             returned.errs[k] = IF HostAccepted(k) /\ ZoneAccepted(k)
                                THEN ExpectedErr(nodes[k])
                                ELSE NilErr

C6_Witness ==
    /\ returned.valid
    /\ Len(nodes) = 2
    /\ ~nodes[1].readable
    /\ ~nodes[2].readable
    /\ HostAccepted(1) /\ ZoneAccepted(1)
    /\ ~HostAccepted(2)
    /\ returned.errs[1] = StatusReadErr
    /\ returned.errs[2] = NilErr

InvalidPattern(p) == p = "("

C8_AsyncFailureNotReturned ==
    ~options.Preview =>
        /\ \A k \in DOMAIN errors :
             /\ errors[k].kind # "CallPost"
             /\ k \in reads => errors[k] = ExpectedErr(nodes[k])
        /\ returned.valid =>
             \A k \in DOMAIN returned.errs :
                returned.errs[k] \in {NilErr, ExpectedErr(nodes[k])}

C8_Witness ==
    /\ ~options.Preview
    /\ returned.valid
    /\ Len(nodes) = 2
    /\ nodes[1].readable /\ nodes[1].substatus = 10
    /\ [op |-> "start", on |-> nodes[1].id, params |-> <<>>, ok |-> FALSE] \in posts
    /\ 1 \in reads
    /\ returned.errs[1] = NilErr

\* A line that reports the failure of the POST p.
ReportsFailure(line, p) ==
    /\ line.level \in {"warn", "error"}
    /\ line.text = "CallPost"
    /\ line.a = p.op

\* C10: every failed POST of a launched Deploy, Aquire or Commission is
\* reported by a log line.
C10_AsyncFailureLogged ==
    \A p \in posts : ~p.ok => \E line \in AllLines : ReportsFailure(line, p)

\* The action the table holds for a node, "nil" when the status read or the
\* resolution fails.
ExpectedAction(node) ==
    IF ExpectedErr(node) = NilErr
    THEN DeployedTable[StatusName(node.substatus)]
    ELSE "nil"

\* C12: after a machine whose slot holds an error (unreadable status, no
\* transition), the loop goes on: every later machine is still examined,
\* is dispatched exactly when it passes both include filters, and gets the
\* outcome and the action its own status calls for.
C12_FailureDoesNotAbort ==
    \A k \in 1..Len(nodes) : \A j \in 1..Len(nodes) :
        (k < j /\ Passed(k) /\ errors[k] # NilErr) =>
            /\ ~Passed(j) => (pc = "loop" /\ ENABLED ProcessAllLoop)
            /\ Passed(j) =>
                 /\ (j \in reads) <=> (HostAccepted(j) /\ ZoneAccepted(j))
                 /\ j \in reads =>
                      /\ errors[j] = ExpectedErr(nodes[j])
                      /\ invoked[j].action = ExpectedAction(nodes[j])

C12_Witness ==
    /\ Len(nodes) = 2
    /\ ~nodes[1].readable
    /\ Passed(2)
    /\ errors[1] = StatusReadErr
    /\ 2 \in reads
    /\ errors[2] = NilErr
    /\ invoked[2].action = "Deploy"

\* The lines the step appends to the log of the calling thread.
Appended == SubSeq(logbuf', Len(logbuf) + 1, Len(logbuf'))

\* The goroutines the step starts.
Launched == BagCardinality(goroutines') - BagCardinality(goroutines)

\* The node passes both include filters, its status is read and the table
\* holds an action for it.
Eligible(k) ==
    /\ HostAccepted(k)
    /\ ZoneAccepted(k)
    /\ ExpectedErr(nodes[k]) = NilErr

\* C16: the iteration of the loop for machine i invokes exactly one action,
\* inline or as a goroutine, when the machine passes both include filters,
\* its status is read and an action is found for it, and that action is the
\* one of the table; otherwise it invokes none and no request is issued.
\* The iteration invokes nothing for any other machine.
C16_OneActionPerEligibleMachine ==
    [][(pc = "loop" /\ i' = i + 1) =>
          /\ Launched + Len(SelectSeq(Appended, IsActionLine))
                 = IF Eligible(i) THEN 1 ELSE 0
          /\ Eligible(i) =>
                /\ invoked'[i].action = ExpectedAction(nodes[i])
                /\ invoked'[i].mode = IF options.Preview THEN "sync" ELSE "go"
                /\ Launched = IF options.Preview THEN 0 ELSE 1
          /\ ~Eligible(i) =>
                /\ invoked'[i] = NoCall
                /\ posts' = posts
          /\ \A k \in DOMAIN invoked : k # i => invoked'[k] = invoked[k]
      ]_vars

C16_Witness ==
    /\ Len(nodes) = 2
    /\ pc = "idle"
    /\ run = 1
    /\ ~options.Preview
    /\ Eligible(1)
    /\ HostAccepted(2) /\ ZoneAccepted(2)
    /\ ExpectedErr(nodes[2]) = UnknownTransitionErr("Invalid", "Deployed")
    /\ invoked[1].action = "Aquire"
    /\ invoked[2] = NoCall
    /\ BagCardinality(goroutines) = 1

\* The request a goroutine running the action for nodes[k] issues.
RequestOf(action, k) ==
    CASE action = "Deploy"     -> Post("start", nodes[k].id, <<>>)
      [] action = "Aquire"     -> Post("acquire", "nodes", <<"name", nodes[k].hostname>>)
      [] action = "Commission" -> Post("commission", nodes[k].id, <<>>)

\* C18: in non-preview mode the iteration for an eligible machine starts a
\* goroutine for it whether or not goroutines started for the same machine
\* by earlier runs are still running, so their number grows by one; each
\* goroutine that ends was free to run (nothing orders it after the others
\* of its machine) and, when its action is Deploy, Aquire or Commission, the
\* server has received its request, once per goroutine.
C18_ActionsNotSerialized ==
    [][/\ (pc = "loop" /\ i' = i + 1 /\ ~options.Preview /\ Eligible(i)) =>
             LET g == [idx |-> i, action |-> ExpectedAction(nodes[i])] IN
             /\ CopiesIn(g, goroutines') = CopiesIn(g, goroutines) + 1
             /\ \A h \in BagToSet(goroutines) :
                    h # g => CopiesIn(h, goroutines') = CopiesIn(h, goroutines)
       /\ \A g \in BagToSet(goroutines) :
             CopiesIn(g, goroutines') < CopiesIn(g, goroutines) =>
                /\ CopiesIn(g, goroutines') = CopiesIn(g, goroutines) - 1
                /\ g.action \in {"Deploy", "Aquire", "Commission"} =>
                      \E ok \in BOOLEAN :
                          [op |-> RequestOf(g.action, g.idx).op,
                           on |-> RequestOf(g.action, g.idx).on,
                           params |-> RequestOf(g.action, g.idx).params,
                           ok |-> ok] \in posts'
      ]_vars

\* Two goroutines of the same machine are running, one started by each run,
\* and the server has not yet received either request.
C18_Witness ==
    /\ ~options.Preview
    /\ run = 2
    /\ Len(nodes) >= 1
    /\ CopiesIn([idx |-> 1, action |-> "Deploy"], goroutines) = 2
    /\ posts = {}
    /\ ENABLED Goroutine

(***************************************************************************)
(* Preview mode (checked under Spec).                                      *)
(***************************************************************************)
ActionText(action) ==
    CASE action = "Done"       -> "COMPLETE"
      [] action = "Deploy"     -> "DEPLOY"
      [] action = "Aquire"     -> "AQUIRE"
      [] action = "Commission" -> "COMISSION"
      [] action = "Wait"       -> "WAIT"
      [] action = "Fail"       -> "FAIL"
      [] action = "AdminState" -> "ADMIN"

\* The lines the actions of nodes[1..n] log when run one after the other.
RECURSIVE ActionLinesUpTo(_)
ActionLinesUpTo(n) ==
    IF n = 0 THEN <<>>
    ELSE ActionLinesUpTo(n - 1) \o
         (IF Eligible(n)
          THEN <<ActionLine(ActionText(ExpectedAction(nodes[n])), nodes[n].hostname)>>
          ELSE <<>>)

RECURSIVE Repeated(_, _)
Repeated(seq, n) == IF n = 0 THEN <<>> ELSE Repeated(seq, n - 1) \o seq

\* C19: in preview mode no goroutine is ever running and no action logs
\* from one; when the loop has passed machines 1..i-1 the calling thread has
\* logged the completed actions of exactly those machines, in input order,
\* after those of the earlier runs, and when ProcessAll has returned the
\* actions of all its machines are complete.
C19_PreviewIsSynchronous ==
    options.Preview =>
        /\ goroutines = EmptyBag
        /\ golog = {}
        /\ pc = "idle" =>
              SelectSeq(logbuf, IsActionLine) = Repeated(ActionLinesUpTo(Len(nodes)), run)
        /\ pc = "loop" =>
              /\ \A k \in 1..(i - 1) : Eligible(k) => invoked[k].mode = "sync"
              /\ SelectSeq(logbuf, IsActionLine) =
                     Repeated(ActionLinesUpTo(Len(nodes)), run - 1) \o ActionLinesUpTo(i - 1)

C19_Witness ==
    /\ options.Preview
    /\ pc = "idle"
    /\ run = 1
    /\ returned.valid
    /\ Len(nodes) = 2
    /\ SelectSeq(logbuf, IsActionLine) =
           <<ActionLine("COMISSION", "web-01"), ActionLine("COMPLETE", "db-01")>>
    /\ goroutines = EmptyBag

(***************************************************************************)
(* The exclude lists (checked under SpecExclude).                          *)
(***************************************************************************)

\* C13: the exclude lists have no influence: whatever Filter.Hosts.Exclude
\* and Filter.Zones.Exclude hold, a machine is dispatched exactly when it
\* passes the two include filters, the action invoked and the slot written
\* are those its status calls for, ProcessAll is not ended by an exclude
\* pattern, and it returns the sequence so determined.  None of these
\* depends on the exclude lists, so two option values that differ only in
\* them give the same decisions, actions and results.
C13_ExcludeListsUnused ==
    /\ pc # "fatal"
    /\ \A k \in 1..Len(nodes) :
         Passed(k) =>
            /\ (k \in reads) <=> (HostAccepted(k) /\ ZoneAccepted(k))
            /\ invoked[k].action = IF HostAccepted(k) /\ ZoneAccepted(k)
                                   THEN ExpectedAction(nodes[k]) ELSE "nil"
            /\ errors[k] = IF HostAccepted(k) /\ ZoneAccepted(k)
                           THEN ExpectedErr(nodes[k]) ELSE NilErr
    /\ (pc = "idle" /\ returned.valid) => returned.errs = errors

C13_Witness ==
    /\ options.HostsExclude = <<"^web-">>
    /\ options.ZonesExclude = <<"west">>
    /\ Len(nodes) = 2
    /\ pc = "idle"
    /\ returned.valid
    /\ reads = {1, 2}
    /\ invoked[1].action = "Deploy"
    /\ invoked[2].action = "Done"

(***************************************************************************)
(* Which states lead to a request (checked under SpecStates).              *)
(***************************************************************************)
\* The requests the MAAS client received for the machine nodes[k].
PostsFor(k) ==
    {p \in posts : \/ p.on = nodes[k].id
                   \/ p.op = "acquire" /\ p.params = <<"name", nodes[k].hostname>>}

QuietStates ==
    {"Missing", "Broken", "FailedCommissioning", "FailedDeployment", "FailedReleasing",
     "FailedDiskErasing", "Retired", "Reserved", "Commissioning", "Deploying",
     "Releasing", "DiskErasing", "Deployed"}

\* C15: over any number of ProcessAll runs, a request is issued only when
\* not in preview mode and only for a machine in New (commission), Ready
\* (acquire) or Allocated (start); no request is ever issued for a machine
\* that stays in a failed, administrative or progressing state or in
\* Deployed.
C15_RequestsOnlyFromNewReadyAllocated ==
    /\ posts = UNION {PostsFor(k) : k \in 1..Len(nodes)}
    /\ \A k \in 1..Len(nodes) :
         LET state == StatusName(nodes[k].substatus) IN
         /\ options.Preview => PostsFor(k) = {}
         /\ state = "New" =>
               \A p \in PostsFor(k) : p.op = "commission" /\ p.on = nodes[k].id
         /\ state = "Ready" =>
               \A p \in PostsFor(k) : p.op = "acquire" /\ p.on = "nodes"
         /\ state = "Allocated" =>
               \A p \in PostsFor(k) : p.op = "start" /\ p.on = nodes[k].id
         /\ state \in QuietStates => PostsFor(k) = {}
         /\ state \in QuietStates \cup {"New", "Ready", "Allocated"}

C15_Witness ==
    /\ ~options.Preview
    /\ run = 2
    /\ pc = "idle"
    /\ goroutines = EmptyBag
    /\ StatusName(nodes[1].substatus) = "Broken"
    /\ StatusName(nodes[2].substatus) = "New"
    /\ ActionLine("FAIL", nodes[1].hostname) \in golog
    /\ PostsFor(1) = {}
    /\ PostsFor(2) = {[op |-> "commission", on |-> nodes[2].id, params |-> <<>>, ok |-> TRUE]}

(***************************************************************************)
(* Termination of ProcessAll (checked under SpecCaller).                   *)
(***************************************************************************)

\* C11: with valid patterns a ProcessAll that has entered its loop returns
\* a result sequence with one slot per machine, whether or not the actions
\* it launched ever run.
C11_ProcessAllReturns ==
    (pc = "loop") ~> (pc = "idle" /\ returned.valid /\ Len(returned.errs) = Len(nodes))

C11_Witness ==
    /\ pc = "idle"
    /\ run = 1
    /\ returned.valid
    /\ Len(returned.errs) = 2
    /\ BagCardinality(goroutines) = 2
    /\ posts = {}
    /\ golog = {}

====
